---- MODULE Spec2Model ----
(***************************************************************************)
(* Arithmetic in the Wiedemann tower GF(2) < GF(4) < GF(16) < GF(256) as   *)
(* implemented in src/arithmetic.rs, the operand check and binary          *)
(* operators of src/parser.rs and the read-evaluate-print loop of          *)
(* src/main.rs.                                                            *)
(*                                                                         *)
(* A field element is a sequence of BOOLEAN (Vec<bool>); Rust index i is   *)
(* TLA+ index i + 1.  A Rust assertion failure (panic) is modelled by the  *)
(* *_panics predicates: the value operators add, rot, mul and inv give the *)
(* returned vector of a call that does not panic.                          *)
(***************************************************************************)
EXTENDS Integers, Sequences, FiniteSets, TLC

(***************************************************************************)
(* Bounds of the model.                                                    *)
(***************************************************************************)
\* longest operand handed to add/mul when shapes are unconstrained
MaxShapeLen == 8
\* number of second and third operands sampled per length in a triple product
MaxSample == 16
\* longest input line (in characters) typed into the evaluator
MaxLineLen == 3

\* the tower levels the claims speak about: GF(2), GF(4), GF(16), GF(256)
Lengths == {1, 2, 4, 8}

Elems(n) == [1..n -> BOOLEAN]

Zero(n) == [i \in 1..n |-> FALSE]

\* the bit sequence [1, 0, ..., 0]
One(n) == [i \in 1..n |-> i = 1]

\* operand.iter().any(|&x| x)
any(operand) == \E i \in 1..Len(operand) : operand[i]

\* usize::is_power_of_two
RECURSIVE is_power_of_two(_)
is_power_of_two(k) ==
  k = 1 \/ (k > 1 /\ k % 2 = 0 /\ is_power_of_two(k \div 2))

(***************************************************************************)
(* src/arithmetic.rs                                                       *)
(***************************************************************************)
RECURSIVE rot(_)
RECURSIVE rot_panics(_)
RECURSIVE mul(_, _)
RECURSIVE mul_panics(_, _)
RECURSIVE inv(_)
RECURSIVE inv_panics(_)

\* add with the length assertion removed: only the out-of-bounds read of
\* right[i], when left is the longer operand, panics
add_panics_index_only(left, right) == Len(left) > Len(right)

\* add: assert_eq!(left.len(), right.len())
add_panics(left, right) == Len(left) # Len(right)

\* add: bitwise XOR
add(left, right) == [i \in 1..Len(left) |-> left[i] # right[i]]

\* rot: assert_eq!(n % 2, 0) here or in a recursive call
rot_panics(operand) ==
  LET n == Len(operand)
      half_n == n \div 2
      low_bits == SubSeq(operand, 1, half_n)
      high_bits == SubSeq(operand, half_n + 1, n)
  IN  /\ n # 1
      /\ \/ n % 2 # 0
         \/ rot_panics(high_bits)
         \/ add_panics(low_bits, rot(high_bits))

\* rot with the recursive call on the high half forgotten
rot_flat(operand) ==
  LET n == Len(operand)
      half_n == n \div 2
      low_bits == SubSeq(operand, 1, half_n)
      high_bits == SubSeq(operand, half_n + 1, n)
  IN  IF n = 1 THEN operand
      ELSE high_bits \o add(low_bits, high_bits)

rot(operand) ==
  LET n == Len(operand)
      half_n == n \div 2
      low_bits == SubSeq(operand, 1, half_n)
      high_bits == SubSeq(operand, half_n + 1, n)
      result_low_bits == high_bits
      result_high_bits == add(low_bits, rot(high_bits))
  IN  IF n = 1 THEN operand
      ELSE result_low_bits \o result_high_bits

\* mul, after the four recursive products: the panics of
\* add(&ac, &bd) and add(&ad, &add(&bc, &rot(&bd)))
mul_combine_panics(ac, ad, bc, bd) ==
  \/ add_panics(ac, bd)
  \/ rot_panics(bd)
  \/ add_panics(bc, rot(bd))
  \/ add_panics(ad, add(bc, rot(bd)))

\* mul: assert_eq!(n, right.len()), assert_eq!(n % 2, 0), and the panics of
\* the calls it makes, in call order
mul_panics(left, right) ==
  LET n == Len(left)
      half_n == n \div 2
      a == SubSeq(left, 1, half_n)
      b == SubSeq(left, half_n + 1, n)
      c == SubSeq(right, 1, half_n)
      d == SubSeq(right, half_n + 1, n)
  IN  \/ n # Len(right)
      \/ /\ n # 1
         /\ \/ n % 2 # 0
            \/ mul_panics(a, c)
            \/ mul_panics(a, d)
            \/ mul_panics(b, c)
            \/ mul_panics(b, d)
            \/ mul_combine_panics(mul(a, c), mul(a, d), mul(b, c), mul(b, d))

\* mul with rot applied to bc instead of bd
mul_rot_bc(left, right) ==
  LET n == Len(left)
      half_n == n \div 2
      a == SubSeq(left, 1, half_n)
      b == SubSeq(left, half_n + 1, n)
      c == SubSeq(right, 1, half_n)
      d == SubSeq(right, half_n + 1, n)
  IN  IF n = 1 THEN << left[1] /\ right[1] >>
      ELSE add(mul(a, c), mul(b, d))
             \o add(mul(a, d), add(mul(b, d), rot(mul(b, c))))

\* mul with the GF(2) base case computed as OR instead of AND
mul_base_or(left, right) ==
  LET n == Len(left)
      half_n == n \div 2
      a == SubSeq(left, 1, half_n)
      b == SubSeq(left, half_n + 1, n)
      c == SubSeq(right, 1, half_n)
      d == SubSeq(right, half_n + 1, n)
  IN  IF n = 1 THEN << left[1] \/ right[1] >>
      ELSE add(mul(a, c), mul(b, d))
             \o add(mul(a, d), add(mul(b, c), rot(mul(b, d))))

\* mul with the term bc left out of the high half
mul_no_bc(left, right) ==
  LET n == Len(left)
      half_n == n \div 2
      a == SubSeq(left, 1, half_n)
      b == SubSeq(left, half_n + 1, n)
      c == SubSeq(right, 1, half_n)
      d == SubSeq(right, half_n + 1, n)
  IN  IF n = 1 THEN << left[1] /\ right[1] >>
      ELSE add(mul(a, c), mul(b, d)) \o add(mul(a, d), rot(mul(b, d)))

mul(left, right) ==
  LET n == Len(left)
      half_n == n \div 2
      a == SubSeq(left, 1, half_n)
      b == SubSeq(left, half_n + 1, n)
      c == SubSeq(right, 1, half_n)
      d == SubSeq(right, half_n + 1, n)
      ac == mul(a, c)
      ad == mul(a, d)
      bc == mul(b, c)
      bd == mul(b, d)
      result_low_bits == add(ac, bd)
      result_high_bits == add(ad, add(bc, rot(bd)))
  IN  IF n = 1 THEN << left[1] /\ right[1] >>
      ELSE result_low_bits \o result_high_bits

\* delta with rot(high) replaced by high
delta_no_rot(operand) ==
  LET n == Len(operand)
      half_n == n \div 2
      low_bits == SubSeq(operand, 1, half_n)
      high_bits == SubSeq(operand, half_n + 1, n)
  IN  add(mul(low_bits, add(low_bits, high_bits)), mul(high_bits, high_bits))

\* inv: delta = low*(low + rot(high)) + high*high of an operand of even length
delta(operand) ==
  LET n == Len(operand)
      half_n == n \div 2
      low_bits == SubSeq(operand, 1, half_n)
      high_bits == SubSeq(operand, half_n + 1, n)
      rot_high_bits == rot(high_bits)
  IN  add(mul(low_bits, add(low_bits, rot_high_bits)), mul(high_bits, high_bits))

\* inv, after rot(high_bits): the panics of computing delta, of the nested
\* inv(delta) and of the two products with delta_inv
inv_tail_panics(low_bits, high_bits, rot_high_bits, delta_value) ==
  \/ add_panics(low_bits, rot_high_bits)
  \/ mul_panics(low_bits, add(low_bits, rot_high_bits))
  \/ mul_panics(high_bits, high_bits)
  \/ inv_panics(delta_value)
  \/ mul_panics(inv(delta_value), high_bits)
  \/ mul_panics(inv(delta_value), add(low_bits, rot_high_bits))

\* inv: assert!(operand.iter().any(|&x| x)), assert_eq!(n % 2, 0), and the
\* panics of the calls it makes, in call order
inv_panics(operand) ==
  LET n == Len(operand)
      half_n == n \div 2
      low_bits == SubSeq(operand, 1, half_n)
      high_bits == SubSeq(operand, half_n + 1, n)
  IN  \/ ~any(operand)
      \/ /\ n # 1
         /\ \/ n % 2 # 0
            \/ rot_panics(high_bits)
            \/ inv_tail_panics(low_bits, high_bits, rot(high_bits), delta(operand))

\* inv with the low half computed as delta_inv * low
inv_low_only(operand) ==
  LET n == Len(operand)
      half_n == n \div 2
      low_bits == SubSeq(operand, 1, half_n)
      high_bits == SubSeq(operand, half_n + 1, n)
      delta_inv == inv(delta(operand))
  IN  IF n = 1 THEN operand
      ELSE mul(delta_inv, low_bits) \o mul(delta_inv, high_bits)

inv(operand) ==
  LET n == Len(operand)
      half_n == n \div 2
      low_bits == SubSeq(operand, 1, half_n)
      high_bits == SubSeq(operand, half_n + 1, n)
      rot_high_bits == rot(high_bits)
      delta_inv == inv(delta(operand))
      result_high_bits == mul(delta_inv, high_bits)
      result_low_bits == mul(delta_inv, add(low_bits, rot_high_bits))
  IN  IF n = 1 THEN operand
      ELSE result_low_bits \o result_high_bits

\* the operands of the nested inv calls made by inv(operand), outermost first
RECURSIVE inv_deltas(_)
inv_deltas(operand) ==
  IF Len(operand) = 1 \/ ~any(operand) THEN << >>
  ELSE << delta(operand) >> \o inv_deltas(delta(operand))

(***************************************************************************)
(* src/parser.rs.  An input line is a sequence of one-character strings;   *)
(* pos counts consumed characters as self.pos does.  A parse ends "ok"     *)
(* with a value, "err" with the message of the Err, or "panic" when a call *)
(* into the arithmetic core fails an assertion.                            *)
(***************************************************************************)
Ok(v, p) == [kind |-> "ok", val |-> v, msg |-> << "", "" >>, pos |-> p]
Err(text, arg, p) == [kind |-> "err", val |-> << >>, msg |-> << text, arg >>, pos |-> p]
Panicked(text, p) == [kind |-> "panic", val |-> << >>, msg |-> << text, "" >>, pos |-> p]

\* the panic message of inv's first assertion
ZeroNotInvertible == "assertion failed: operand.iter().any(|&x| x)"

\* usize::ilog2 of a positive length
RECURSIVE ilog2(_)
ilog2(k) == IF k <= 1 THEN 0 ELSE 1 + ilog2(k \div 2)

\* std::cmp::max
max(x, y) == IF x >= y THEN x ELSE y

\* check_arguments with the operands copied to the end of the padded vectors
check_arguments_pad_front(lhs, rhs) ==
  LET target_length == 2 ^ max(ilog2(Len(lhs)), ilog2(Len(rhs)))
  IN  [kind |-> "ok", msg |-> << "", "" >>,
       lhs |-> [i \in 1..target_length |->
                  i > target_length - Len(lhs) /\ lhs[i - (target_length - Len(lhs))]],
       rhs |-> [i \in 1..target_length |->
                  i > target_length - Len(rhs) /\ rhs[i - (target_length - Len(rhs))]]]

check_arguments(lhs, rhs) ==
  LET max_log == max(ilog2(Len(lhs)), ilog2(Len(rhs)))
      target_length == 2 ^ max_log
      lhs_result == [i \in 1..target_length |-> i <= Len(lhs) /\ lhs[i]]
      rhs_result == [i \in 1..target_length |-> i <= Len(rhs) /\ rhs[i]]
  IN  IF ~is_power_of_two(Len(lhs))
        THEN [kind |-> "err",
              msg |-> << "Bitstrings must be of length 2^i, but LHS has length", ToString(Len(lhs)) >>,
              lhs |-> << >>, rhs |-> << >>]
      ELSE IF ~is_power_of_two(Len(rhs))
        THEN [kind |-> "err",
              msg |-> << "Bitstrings must be of length 2^i, but RHS has length", ToString(Len(rhs)) >>,
              lhs |-> << >>, rhs |-> << >>]
      ELSE [kind |-> "ok", msg |-> << "", "" >>, lhs |-> lhs_result, rhs |-> rhs_result]

\* parse_expression, the '+' branch: check_arguments(&value, &rhs)?, then add
expr_add(value, rhs, p) ==
  LET args == check_arguments(value, rhs)
  IN  IF args.kind = "err" THEN Err(args.msg[1], args.msg[2], p)
      ELSE IF add_panics(args.lhs, args.rhs) THEN Panicked("assertion failed: left == right", p)
      ELSE Ok(add(args.lhs, args.rhs), p)

\* parse_term, the '*' branch: check_arguments(&value, &rhs)?, then mul
term_mul(value, rhs, p) ==
  LET args == check_arguments(value, rhs)
  IN  IF args.kind = "err" THEN Err(args.msg[1], args.msg[2], p)
      ELSE IF mul_panics(args.lhs, args.rhs) THEN Panicked("assertion failed: left == right", p)
      ELSE Ok(mul(args.lhs, args.rhs), p)

\* parse_term, the '/' branch: check_arguments(&value, &rhs)?, then
\* mul(&lhs, &inv(&rhs))
term_div(value, rhs, p) ==
  LET args == check_arguments(value, rhs)
  IN  IF args.kind = "err" THEN Err(args.msg[1], args.msg[2], p)
      ELSE IF ~any(args.rhs) THEN Panicked(ZeroNotInvertible, p)
      ELSE IF inv_panics(args.rhs) THEN Panicked("assertion failed: left == right", p)
      ELSE IF mul_panics(args.lhs, inv(args.rhs)) THEN Panicked("assertion failed: left == right", p)
      ELSE Ok(mul(args.lhs, inv(args.rhs)), p)

\* char::is_whitespace, on the characters of the model's alphabet
is_whitespace(ch) == ch = " "

\* peek_char: "" stands for None
peek_char(chars, pos) == IF pos < Len(chars) THEN chars[pos + 1] ELSE ""

\* skip_whitespace: the position after the whitespace that starts at pos
RECURSIVE skip_whitespace(_, _)
skip_whitespace(chars, pos) ==
  IF is_whitespace(peek_char(chars, pos)) THEN skip_whitespace(chars, pos + 1) ELSE pos

\* parse_factor, the literal loop: the position after the run of '0'/'1'
RECURSIVE bits_end(_, _)
bits_end(chars, pos) ==
  IF peek_char(chars, pos) \in {"0", "1"} THEN bits_end(chars, pos + 1) ELSE pos

\* The recursive descent of parse_expression, parse_term and parse_factor,
\* one rule per branch: "term_loop" and "expression_loop" are the loops of
\* parse_term and parse_expression, entered with the value parsed so far.
RECURSIVE parse(_, _, _, _, _)
parse(rule, chars, pos0, prev_val, value) ==
  LET pos == skip_whitespace(chars, pos0)
      ch == peek_char(chars, pos)
      inner == parse("expression", chars, pos + 1, prev_val, << >>)
      close == skip_whitespace(chars, inner.pos)
      end == bits_end(chars, pos)
      first_factor == parse("factor", chars, pos0, prev_val, << >>)
      rhs_factor == parse("factor", chars, pos + 1, prev_val, << >>)
      next_term == IF ch = "*" THEN term_mul(value, rhs_factor.val, rhs_factor.pos)
                   ELSE term_div(value, rhs_factor.val, rhs_factor.pos)
      first_term == parse("term", chars, pos0, prev_val, << >>)
      rhs_term == parse("term", chars, pos + 1, prev_val, << >>)
      next_expression == expr_add(value, rhs_term.val, rhs_term.pos)
  IN  CASE rule = "factor" ->
             IF ch = "(" THEN
               IF inner.kind # "ok" THEN inner
               ELSE IF peek_char(chars, close) = ")" THEN Ok(inner.val, close + 1)
               ELSE Err("Expected ')'", "", close)
             ELSE IF ch = "_" THEN
               IF prev_val.some THEN Ok(prev_val.val, pos + 1)
               ELSE Err("No previous result available", "", pos + 1)
             ELSE IF ch \in {"0", "1"} THEN
               Ok([i \in 1..(end - pos) |-> chars[pos + i] = "1"], end)
             ELSE IF ch # "" THEN Err("Unexpected character", ch, pos)
             ELSE Err("Unexpected end of input", "", pos)
        [] rule = "term" ->
             IF first_factor.kind # "ok" THEN first_factor
             ELSE parse("term_loop", chars, first_factor.pos, prev_val, first_factor.val)
        [] rule = "term_loop" ->
             IF ch \in {"*", "/"} THEN
               IF rhs_factor.kind # "ok" THEN rhs_factor
               ELSE IF next_term.kind # "ok" THEN next_term
               ELSE parse("term_loop", chars, next_term.pos, prev_val, next_term.val)
             ELSE Ok(value, pos)
        [] rule = "expression" ->
             IF first_term.kind # "ok" THEN first_term
             ELSE parse("expression_loop", chars, first_term.pos, prev_val, first_term.val)
        [] rule = "expression_loop" ->
             IF ch = "+" THEN
               IF rhs_term.kind # "ok" THEN rhs_term
               ELSE IF next_expression.kind # "ok" THEN next_expression
               ELSE parse("expression_loop", chars, next_expression.pos, prev_val,
                          next_expression.val)
             ELSE Ok(value, pos)

\* parse_factor: bitstring | '_' | '(' expression ')'
parse_factor(chars, pos, prev_val) == parse("factor", chars, pos, prev_val, << >>)

\* parse_term: factor { '*|/' factor }
parse_term(chars, pos, prev_val) == parse("term", chars, pos, prev_val, << >>)

\* parse_expression: term { '+' term }
parse_expression(chars, pos, prev_val) == parse("expression", chars, pos, prev_val, << >>)

(***************************************************************************)
(* State.  left .. result describe one call of the arithmetic core or one  *)
(* binary operator of the parser; prev, status and report are the state of *)
(* the read-evaluate-print loop of main.                                   *)
(***************************************************************************)
VARIABLES
  left,      \* first operand
  right,     \* second operand
  third,     \* third operand of a triple product, << >> when there is none
  op,        \* the call made: "none" before it
  outcome,   \* "none" | "returned" | "panicked" | "error"
  result,    \* the returned vector, << >> when there is none
  prev,      \* main's prev: Option<Vec<bool>>
  status,    \* "running" | "exited" | "aborted" (the process panicked)
  report     \* what the last line read made the program print

call_vars == << left, right, third, op, outcome, result >>
session_vars == << prev, status, report >>
vars == << left, right, third, op, outcome, result, prev, status, report >>

\* Option<Vec<bool>>
None == [some |-> FALSE, val |-> << >>]
Some(v) == [some |-> TRUE, val |-> v]

\* what the program prints for one line: the stream, the text, its argument
\* and, for a result line, the digits printed after "="
Printed(stream, text, arg, digits) ==
  [stream |-> stream, text |-> text, arg |-> arg, digits |-> digits]

\* main: let mut prev: Option<Vec<bool>> = None, and the banner, before the
\* first line is read
InitSession ==
  /\ prev = None
  /\ status = "running"
  /\ report = Printed("stdout", "banner", "", << >>)

InitCall == op = "none" /\ outcome = "none" /\ result = << >> /\ InitSession

\* operands of valid shape: equal power-of-two length
Init ==
  /\ \E n \in Lengths : left \in Elems(n) /\ right \in Elems(n)
  /\ third = << >>
  /\ InitCall

Return(name, value) ==
  /\ op' = name
  /\ outcome' = "returned"
  /\ result' = value
  /\ UNCHANGED << left, right, third >>
  /\ UNCHANGED session_vars

Panic(name) ==
  /\ op' = name
  /\ outcome' = "panicked"
  /\ result' = << >>
  /\ UNCHANGED << left, right, third >>
  /\ UNCHANGED session_vars

CallAdd ==
  /\ op = "none"
  /\ IF add_panics(left, right) THEN Panic("add") ELSE Return("add", add(left, right))

CallRot ==
  /\ op = "none"
  /\ IF rot_panics(left) THEN Panic("rot") ELSE Return("rot", rot(left))

CallMul ==
  /\ op = "none"
  /\ IF mul_panics(left, right) THEN Panic("mul") ELSE Return("mul", mul(left, right))

CallInv ==
  /\ op = "none"
  /\ IF inv_panics(left) THEN Panic("inv") ELSE Return("inv", inv(left))

Next == CallAdd \/ CallRot \/ CallMul \/ CallInv

Spec == Init /\ [][Next]_vars

(***************************************************************************)
(* Properties of one call on operands of valid shape (Spec).               *)
(***************************************************************************)
\* the generator adjoined at the top level: the only set bit is at index n/2
Generator(n) == [i \in 1..n |-> i = (n \div 2) + 1]

\* the test vector of test_inv: X2 in GF(256)
X2 == << FALSE, FALSE, FALSE, FALSE, TRUE, FALSE, FALSE, FALSE >>

\* C1: for every nonzero a of length 1, 2, 4 or 8, inv(a) returns an element
\* x of the same length with mul(a, x) = [1,0,...,0], and every x of that
\* length with mul(a, x) = [1,0,...,0] is inv(a).
InvIsTheUniqueInverse ==
  /\ (op = "inv" /\ any(left)) =>
        /\ outcome = "returned"
        /\ Len(result) = Len(left)
        /\ mul(left, result) = One(Len(left))
  /\ (op = "mul" /\ any(left) /\ result = One(Len(left))) => right = inv(left)

InvWitness ==
  /\ op = "inv"
  /\ left = X2
  /\ outcome = "returned"
  /\ result = << FALSE, FALSE, TRUE, FALSE, TRUE, FALSE, FALSE, FALSE >>

\* C5: mul(a, b) = mul(b, a) for all a, b of equal length 1, 2, 4 or 8.
MulCommutes ==
  (op = "mul" /\ outcome = "returned") => result = mul(right, left)

MulCommutesWitness ==
  /\ op = "mul"
  /\ outcome = "returned"
  /\ Len(left) = 8
  /\ left # right
  /\ left[8] /\ right[7] /\ ~right[8]
  /\ any(result)

\* C6: mul(a, [1,0,...,0]) = a for every a of length 1, 2, 4 or 8.
MulIdentity ==
  (op = "mul" /\ right = One(Len(left))) =>
     outcome = "returned" /\ result = left

MulIdentityWitness ==
  /\ op = "mul"
  /\ outcome = "returned"
  /\ Len(left) = 8
  /\ right = One(8)
  /\ left[2] /\ left[8]
  /\ result = left

\* C7: rot(a) = mul(a, g) for every a of length 2, 4 or 8, g being the
\* element whose only set bit is at index n/2; rot(a) = a for length 1.
RotIsMulByGenerator ==
  op = "rot" =>
     /\ outcome = "returned"
     /\ Len(left) = 1 => result = left
     /\ Len(left) >= 2 => result = mul(left, Generator(Len(left)))

RotWitness ==
  /\ op = "rot"
  /\ outcome = "returned"
  /\ left = << TRUE, FALSE, FALSE, FALSE, FALSE, FALSE, TRUE, FALSE >>
  /\ result = << FALSE, FALSE, TRUE, FALSE, FALSE, FALSE, FALSE, TRUE >>

\* C8: inside inv(a) for nonzero a of length 2, 4 or 8, the delta handed to
\* each nested inv call is nonzero, so inv(a) returns.
DeltaIsNonzero ==
  (op = "inv" /\ any(left)) =>
     /\ outcome = "returned"
     /\ \A i \in 1..Len(inv_deltas(left)) : any(inv_deltas(left)[i])

DeltaWitness ==
  /\ op = "inv"
  /\ outcome = "returned"
  /\ Len(left) = 8
  /\ left[1] /\ left[6]
  /\ Len(inv_deltas(left)) = 3
  /\ Len(inv_deltas(left)[1]) = 4
  /\ Len(inv_deltas(left)[3]) = 1

(***************************************************************************)
(* SpecShape: one call on operands of any length from 1 to MaxShapeLen.    *)
(***************************************************************************)
\* vectors of a given length whose bits alternate p, q, p, q, ...
ShapeElems(len) ==
  { [i \in 1..len |-> IF i % 2 = 1 THEN p ELSE q] : p \in BOOLEAN, q \in BOOLEAN }

InitShape ==
  /\ \E m \in 1..MaxShapeLen, k \in 1..MaxShapeLen :
        left \in ShapeElems(m) /\ right \in ShapeElems(k)
  /\ third = << >>
  /\ InitCall

SpecShape == InitShape /\ [][Next]_vars

\* unequal lengths, or a common length that is not a power of two
ShapeViolation ==
  Len(left) # Len(right) \/ ~is_power_of_two(Len(left))

\* C3 as stated: add and mul end in an assertion failure on every shape
\* violation among operand lengths 1..MaxShapeLen.
ShapeViolationAlwaysPanics ==
  (op \in {"add", "mul"} /\ ShapeViolation) => outcome = "panicked"

\* C3 amended: mul ends in an assertion failure on every shape violation;
\* add ends in an assertion failure exactly when the lengths differ, and
\* returns the bitwise XOR for any equal lengths, power of two or not.
MulPanicsOnShapeAddOnLength ==
  /\ (op = "mul" /\ ShapeViolation) => outcome = "panicked"
  /\ (op = "add" /\ Len(left) # Len(right)) => outcome = "panicked"
  /\ (op = "add" /\ Len(left) = Len(right)) =>
        /\ outcome = "returned"
        /\ Len(result) = Len(left)
        /\ \A i \in 1..Len(left) : result[i] = (left[i] # right[i])

ShapeWitness ==
  /\ op = "mul"
  /\ Len(left) = 6
  /\ Len(right) = 6
  /\ outcome = "panicked"

(***************************************************************************)
(* SpecAssoc: products of three operands, bracketed both ways.             *)
(***************************************************************************)
\* the k-th vector of length n when the vectors are enumerated with index 0
\* as the most significant bit, as test_inv enumerates F_16
Nth(n, k) == [i \in 1..n |-> (k \div (2 ^ (n - i))) % 2 = 1]

\* the first MaxSample elements of length n (all of them when there are fewer)
Sample(n) ==
  { Nth(n, k) : k \in 0..((IF 2 ^ n < MaxSample THEN 2 ^ n ELSE MaxSample) - 1) }

InitAssoc ==
  /\ \E n \in Lengths :
        left \in Elems(n) /\ right \in Sample(n) /\ third \in Sample(n)
  /\ InitCall

\* right * third, the bracketed inner product of left * (right * third)
CallMulRightThird ==
  /\ op = "none"
  /\ IF mul_panics(right, third) THEN Panic("mul_rt")
     ELSE Return("mul_rt", mul(right, third))

\* (left * right) * third
CallMulResultThird ==
  /\ op = "mul"
  /\ outcome = "returned"
  /\ IF mul_panics(result, third) THEN Panic("mul_lr_t")
     ELSE Return("mul_lr_t", mul(result, third))

\* left * (right * third)
CallMulLeftResult ==
  /\ op = "mul_rt"
  /\ outcome = "returned"
  /\ IF mul_panics(left, result) THEN Panic("mul_l_rt")
     ELSE Return("mul_l_rt", mul(left, result))

NextAssoc ==
  CallMul \/ CallMulRightThird \/ CallMulResultThird \/ CallMulLeftResult

SpecAssoc == InitAssoc /\ [][NextAssoc]_vars

\* C4: mul(a, mul(b, c)) = mul(mul(a, b), c) for all a, b, c of equal length
\* 1, 2 or 4, and at length 8 for every a and the sampled b and c.
MulAssociates ==
  /\ op = "mul_lr_t" =>
        outcome = "returned" /\ result = mul(left, mul(right, third))
  /\ op = "mul_l_rt" =>
        outcome = "returned" /\ result = mul(mul(left, right), third)

MulAssociatesWitness ==
  /\ op = "mul_lr_t"
  /\ outcome = "returned"
  /\ Len(left) = 8
  /\ left[3] /\ left[8]
  /\ right # third
  /\ right[5] /\ third[8]
  /\ right # left
  /\ any(result)

(***************************************************************************)
(* SpecTerm: one binary operator of the parser applied to two operands of  *)
(* possibly different lengths.                                             *)
(***************************************************************************)
\* operand lengths: the tower levels, and 3 as a length check_arguments rejects
TermLengths == Lengths \cup {3}

InitTerm ==
  /\ \E m \in TermLengths, k \in TermLengths :
        left \in Elems(m) /\ right \in Elems(k)
  /\ third = << >>
  /\ InitCall

\* the end of one operator application: Ok(value), Err(message) or a panic
Finish(name, r) ==
  /\ op' = name
  /\ outcome' = (IF r.kind = "ok" THEN "returned"
                 ELSE IF r.kind = "err" THEN "error" ELSE "panicked")
  /\ result' = r.val
  /\ UNCHANGED << left, right, third >>
  /\ UNCHANGED session_vars

EvalAdd == op = "none" /\ Finish("expr_add", expr_add(left, right, 0))

EvalMul == op = "none" /\ Finish("term_mul", term_mul(left, right, 0))

EvalDiv == op = "none" /\ Finish("term_div", term_div(left, right, 0))

NextTerm == EvalAdd \/ EvalMul \/ EvalDiv

SpecTerm == InitTerm /\ [][NextTerm]_vars

\* e followed by false bits up to length n
Pad(e, n) == e \o Zero(n - Len(e))

\* C10: for a, b of equal length m and a tower length n >= m (m, n in
\* 1, 2, 4, 8), the evaluator's product of the operands padded to length n
\* is the padded product: mul(pad_n(a), pad_n(b)) = pad_n(mul(a, b)).
PaddingCommutesWithMul ==
  (op = "term_mul" /\ Len(left) \in Lengths /\ Len(right) \in Lengths) =>
     LET m == IF Len(left) <= Len(right) THEN Len(left) ELSE Len(right)
         n == max(Len(left), Len(right))
         a == SubSeq(left, 1, m)
         b == SubSeq(right, 1, m)
     IN  /\ outcome = "returned"
         /\ Len(result) = n
         /\ (left = Pad(a, Len(left)) /\ right = Pad(b, Len(right))) =>
               result = Pad(mul(a, b), n)

PaddingWitness ==
  /\ op = "term_mul"
  /\ outcome = "returned"
  /\ left = << FALSE, TRUE >>
  /\ right = << TRUE, TRUE, FALSE, FALSE, FALSE, FALSE, FALSE, FALSE >>
  /\ result = << TRUE, FALSE, FALSE, FALSE, FALSE, FALSE, FALSE, FALSE >>

(***************************************************************************)
(* SpecSession: the read-evaluate-print loop of src/main.rs.               *)
(***************************************************************************)
\* the characters a line is typed from; "x" is a character outside the grammar
Alphabet == {"0", "1", "+", "*", "/", "(", ")", "_", " ", "x"}

Lines == UNION { [1..k -> Alphabet] : k \in 0..MaxLineLen }

\* str::trim
RECURSIVE trim_start(_)
trim_start(chars) ==
  IF chars # << >> /\ is_whitespace(Head(chars)) THEN trim_start(Tail(chars)) ELSE chars

RECURSIVE trim_end(_)
trim_end(chars) ==
  IF chars # << >> /\ is_whitespace(chars[Len(chars)])
    THEN trim_end(SubSeq(chars, 1, Len(chars) - 1))
    ELSE chars

trim(chars) == trim_end(trim_start(chars))

\* result.iter().for_each(|bit| print!("1") or print!("0"))
Digits(bits) == [i \in 1..Len(bits) |-> IF bits[i] THEN "1" ELSE "0"]

\* the program started: no call of the core is under observation
InitSessionSpec ==
  /\ left = << >> /\ right = << >> /\ third = << >>
  /\ InitCall

\* one line read from stdin that is not "exit"
ReadLine ==
  /\ status = "running"
  /\ \E input \in Lines :
        LET trimmed == trim(input)
            parsed == parse_expression(trimmed, 0, prev)
            pos == skip_whitespace(trimmed, parsed.pos)
        IN  IF trimmed = << >> THEN UNCHANGED session_vars
            ELSE IF parsed.kind = "ok" THEN
              IF pos < Len(trimmed) THEN
                /\ report' = Printed("stderr", "Error: Unexpected character at position",
                                     ToString(pos + 1), << >>)
                /\ UNCHANGED << prev, status >>
              ELSE
                /\ report' = Printed("stdout", "=", "", Digits(parsed.val))
                /\ prev' = Some(parsed.val)
                /\ UNCHANGED status
            ELSE IF parsed.kind = "err" THEN
              /\ report' = Printed("stderr", "Error: " \o parsed.msg[1], parsed.msg[2], << >>)
              /\ UNCHANGED << prev, status >>
            ELSE
              /\ report' = Printed("stderr", parsed.msg[1], "", << >>)
              /\ status' = "aborted"
              /\ UNCHANGED prev
  /\ UNCHANGED call_vars

\* the line "exit", in any letter case
ReadExit ==
  /\ status = "running"
  /\ status' = "exited"
  /\ report' = Printed("stdout", "Goodbye!", "", << >>)
  /\ UNCHANGED prev
  /\ UNCHANGED call_vars

\* end of input, or a read error
ReadEof ==
  /\ status = "running"
  /\ status' = "exited"
  /\ report' = Printed("stdout", "Goodbye!", "", << >>)
  /\ UNCHANGED prev
  /\ UNCHANGED call_vars

NextSession == ReadLine \/ ReadExit \/ ReadEof

SpecSession == InitSessionSpec /\ [][NextSession]_vars

\* C2: a division whose right operand is zero ends in an error after which
\* the session is still running, with the previous result unchanged.
ZeroDivisionIsRecoverable ==
  report.text = ZeroNotInvertible => status = "running"

\* C9: every result accepted and stored as the previous result has
\* power-of-two length.
StoredResultLengthIsPowerOfTwo ==
  prev.some => is_power_of_two(Len(prev.val))

====
